---- MODULE Spec2Model ----
(***************************************************************************)
(* Model of src/index.js: the page-load pipeline (window.onload, getData,   *)
(* fetchJsonData), the decoder formatMigrationData and the colour mapping   *)
(* (styleFunction, calcHue).  index.js holds three variants of the script;  *)
(* the variable `variant` says which one is loaded.                         *)
(***************************************************************************)
EXTENDS Integers, Sequences, FiniteSets, TLC

VARIABLES
  variant,          \* which variant of the script is loaded (1, 2 or 3)
  sessionStorage,   \* the two session-store entries, as stored text
  pc,               \* position of the page-load handler / getData
  geoJsonData,      \* getData's outer local geoJsonData (lines 47, 208)
  migrationData,    \* getData's outer local migrationData (lines 48, 209)
  cacheRead,        \* what the two reads of lines 47-48 / 208-209 gave
  fetches,          \* per URL: the state of the fetchJsonData call
  console,          \* messages written by console.error
  result,           \* what getData returned / how it ended
  effects,          \* calls made by the current getData invocation
  drawn,            \* arguments of the drawMap call, if any
  session,          \* the browser session: page loads so far and what they did
  immigrationData,  \* decoder input (formatMigrationData argument)
  emigrationData,   \* decoder input (formatMigrationData argument)
  formatted,        \* decoder output
  feature,          \* styleFunction input
  styleTable,       \* styleFunction input (its migrationData argument)
  style,            \* styleFunction output
  layer,            \* what onEachFunction bound to the feature's layer
  positiveMigration,\* calcHue input
  negativeMigration,\* calcHue input
  hue               \* calcHue output

pipelineVars == <<variant, sessionStorage, pc, geoJsonData, migrationData,
                  cacheRead, fetches, console, result, effects, drawn,
                  session>>
decodeVars == <<immigrationData, emigrationData, formatted>>
styleVars == <<feature, styleTable, style, layer>>
hueVars == <<positiveMigration, negativeMigration, hue>>
vars == <<pipelineVars, decodeVars, styleVars, hueVars>>

----------------------------------------------------------------------------
(* Bounds *)
MaxLen == 2         \* longest value sequence of a cube
MaxCount == 1       \* the nonzero count in a cube
MaxMigration == 10  \* largest argument given to calcHue
MaxRow == 2         \* largest count in a table row given to styleFunction
MaxLoads == 2       \* page loads in one browser session

----------------------------------------------------------------------------
(* JavaScript values *)

\* a number, undefined or NaN
Num(n) == [t |-> "number", n |-> n]
Undefined == [t |-> "undefined", n |-> 0]

\* strings are sequences of characters
KU1 == <<"K", "U", "1">>
KU2 == <<"K", "U", "2">>
Bare1 == <<"1">>
RawKeys == {KU1, KU2, Bare1}
Code1 == <<"1">>
Code2 == <<"2">>
Codes == {Code1, Code2}

EmptyTable == [c \in {} |-> [f \in {} |-> Undefined]]

\* property read obj[f]: undefined when the object has no such property
Get(obj, f) == IF f \in DOMAIN obj THEN obj[f] ELSE Undefined

\* array read arr[i] with a 0-based index that may be undefined
ArrayGet(arr, i) ==
  IF i.t = "number" /\ i.n >= 0 /\ i.n < Len(arr) THEN Num(arr[i.n + 1])
  ELSE Undefined

----------------------------------------------------------------------------
(* The decoder: formatMigrationData (lines 82-102, 226-243) *)

\* a statistical cube: dataset.value and the category index of its dimension
\* (a value is zero or not; an index position may lie outside the values)
Counts == {0, MaxCount}
Cubes ==
  [value : UNION {[1..n -> Counts] : n \in 0..MaxLen},
   index : UNION {[S -> 0..(MaxLen - 1)] : S \in SUBSET RawKeys}]

\* key.replace(/^KU/, "")
StripK(key) ==
  IF Len(key) >= 1 /\ key[1] = "K" THEN SubSeq(key, 2, Len(key)) ELSE key

StripKU(key) ==
  IF Len(key) >= 2 /\ key[1] = "K" /\ key[2] = "U"
  THEN SubSeq(key, 3, Len(key))
  ELSE key

\* Object.entries order: integer-like keys first, then the other keys
KeyOrder == <<Bare1, KU1, KU2>>
InIndex(index) == [k \in RawKeys |-> k \in DOMAIN index]
ObjectEntries(index) ==
  LET present == InIndex(index)
      Test(k) == present[k]
  IN SelectSeq(KeyOrder, Test)

\* emigrationIndexes[key]
EmgIndex(emgIndexes, key) ==
  IF key \in DOMAIN emgIndexes THEN Num(emgIndexes[key]) ELSE Undefined

\* the reducer callback, lines 91-99
RECURSIVE Reduce(_, _, _, _)
Reduce(keys, accumulator, immData, emgData) ==
  IF keys = <<>> THEN accumulator
  ELSE
    LET key == Head(keys)
        value == immData.index[key]
        label == StripKU(key)
        emgIndex == EmgIndex(emgData.index, key)
        row == [immigration |-> ArrayGet(immData.value, Num(value)),
                emigration |-> ArrayGet(emgData.value, emgIndex)]
        next == [l \in (DOMAIN accumulator) \cup {label} |->
                   IF l = label THEN row ELSE accumulator[l]]
    IN Reduce(Tail(keys), next, immData, emgData)

formatMigrationData(immData, emgData) ==
  Reduce(ObjectEntries(immData.index), EmptyTable, immData, emgData)

NotFormatted == [done |-> FALSE, table |-> EmptyTable]

DecodeInit ==
  /\ immigrationData \in Cubes
  /\ emigrationData \in Cubes
  /\ formatted = NotFormatted

DecodeIdle ==
  /\ immigrationData = [value |-> <<>>, index |-> EmptyTable]
  /\ emigrationData = [value |-> <<>>, index |-> EmptyTable]
  /\ formatted = NotFormatted

Decode ==
  /\ ~formatted.done
  /\ formatted' = [done |-> TRUE,
                   table |-> formatMigrationData(immigrationData, emigrationData)]
  /\ UNCHANGED <<immigrationData, emigrationData>>
  /\ UNCHANGED <<pipelineVars, styleVars, hueVars>>

----------------------------------------------------------------------------
(* The colour mapping: calcHue (171-174, 283-286), styleFunction (150-163) *)

\* a hue: the exact rational num/den, or NaN
Rat(a, b) == [t |-> "number", num |-> a, den |-> b]
NaN == [t |-> "NaN", num |-> 0, den |-> 1]
NoHue == [t |-> "none", num |-> 0, den |-> 1]

\* x || 1 on a count
OrOne(x) == IF x.t = "number" /\ x.n # 0 THEN x.n ELSE 1

calcHueSquare(posMig, negMig) ==
  IF posMig.t # "number" THEN NaN
  ELSE
    LET d == OrOne(negMig)
        h == Rat(posMig.n * posMig.n * 60, d * d)
    IN IF h.num >= 120 * h.den THEN Rat(120, 1) ELSE h

calcHue(posMig, negMig) ==
  IF posMig.t # "number" THEN NaN
  ELSE
    LET d == OrOne(negMig)
        h == Rat(posMig.n * posMig.n * posMig.n * 60, d * d * d)
    IN IF h.num >= 120 * h.den THEN Rat(120, 1) ELSE h

HueInit ==
  /\ positiveMigration \in {Num(n) : n \in 0..MaxMigration}
  /\ negativeMigration \in {Num(n) : n \in 0..MaxMigration}
  /\ hue = NoHue

HueIdle ==
  /\ positiveMigration = Num(0)
  /\ negativeMigration = Num(0)
  /\ hue = NoHue

CalcHue ==
  /\ hue = NoHue
  /\ hue' = calcHue(positiveMigration, negativeMigration)
  /\ UNCHANGED <<positiveMigration, negativeMigration>>
  /\ UNCHANGED <<pipelineVars, decodeVars, styleVars>>

\* a GeoJSON feature: whether it has properties, properties.kunta and
\* properties.name (the empty string stands for an absent one: both are falsy)
NoKunta == <<>>
NoName == <<>>
NameA == <<"A">>
Features ==
  {[properties |-> FALSE, kunta |-> NoKunta, name |-> NoName]}
  \cup [properties : {TRUE}, kunta : {NoKunta} \cup Codes, name : {NoName, NameA}]

\* rows of a migration table; a field may hold undefined or be absent
RowValues == {Num(n) : n \in 0..MaxRow}
StyleRows ==
  [immigration : RowValues, emigration : RowValues \cup {Undefined}]
  \cup [{"immigration"} -> RowValues]
StyleTables == UNION {[S -> StyleRows] : S \in SUBSET Codes}

EmptyRow == [f \in {} |-> Undefined]

\* feature.properties?.kunta, as a condition
HasKunta(f) == f.properties /\ f.kunta # NoKunta

NoStyle == [color |-> "none", hue |-> NoHue, weight |-> 0]
FallbackStyle == [color |-> "#ccc", hue |-> NoHue, weight |-> 1]

styleFunction(f, table) ==
  IF HasKunta(f)
  THEN LET row == IF f.kunta \in DOMAIN table THEN table[f.kunta] ELSE EmptyRow
           immigration == Get(row, "immigration")
           emigration == Get(row, "emigration")
       IN [color |-> "hsl", hue |-> calcHue(immigration, emigration), weight |-> 2]
  ELSE FallbackStyle

\* onEachFunction (lines 129-142, 259-270)

\* `${x}` in a template string
DigitChars == <<"0", "1", "2", "3", "4", "5", "6", "7", "8", "9">>
RECURSIVE ToDigits(_)
ToDigits(n) ==
  IF n < 10 THEN <<DigitChars[n + 1]>>
  ELSE ToDigits(n \div 10) \o <<DigitChars[(n % 10) + 1]>>
Interpolate(x) == IF x.t = "number" THEN ToDigits(x.n) ELSE <<"undefined">>

\* feature.properties?.name, as a condition
HasName(f) == f.properties /\ f.name # NoName

\* the default of line 138
PopupDefaultEmpty == EmptyRow

PopupDefault == [immigration |-> Num(0), emigration |-> Num(0)]

NoPopup == [bound |-> FALSE, positive |-> <<>>, negative |-> <<>>]
NoLayer == [done |-> FALSE, tooltip |-> NoName, popup |-> NoPopup]

onEachFunction(f, table) ==
  [done |-> TRUE,
   tooltip |-> IF HasName(f) THEN f.name ELSE NoName,
   popup |->
     IF HasKunta(f)
     THEN LET row == IF f.kunta \in DOMAIN table THEN table[f.kunta]
                     ELSE PopupDefault
          IN [bound |-> TRUE,
              positive |-> Interpolate(Get(row, "immigration")),
              negative |-> Interpolate(Get(row, "emigration"))]
     ELSE NoPopup]

StyleInit ==
  /\ feature \in Features
  /\ styleTable \in StyleTables
  /\ style = NoStyle
  /\ layer = NoLayer

StyleIdle ==
  /\ feature = [properties |-> FALSE, kunta |-> NoKunta, name |-> NoName]
  /\ styleTable = EmptyTable
  /\ style = NoStyle
  /\ layer = NoLayer

Style ==
  /\ style = NoStyle
  /\ style' = styleFunction(feature, styleTable)
  /\ UNCHANGED <<feature, styleTable, layer>>
  /\ UNCHANGED <<pipelineVars, decodeVars, hueVars>>

OnEach ==
  /\ ~layer.done
  /\ layer' = onEachFunction(feature, styleTable)
  /\ UNCHANGED <<feature, styleTable, style>>
  /\ UNCHANGED <<pipelineVars, decodeVars, hueVars>>

----------------------------------------------------------------------------
(* Values that travel through the pipeline *)

NoCube == [value |-> <<>>, index |-> [k \in {} |-> 0]]

\* a value held by a local of getData: null, undefined, or an object that
\* is a feature collection, a migration table or a cube
Null == [t |-> "null", geo |-> <<>>, table |-> EmptyTable, cube |-> NoCube]
UndefinedVal == [t |-> "undefined", geo |-> <<>>, table |-> EmptyTable, cube |-> NoCube]
SyntaxError == [t |-> "SyntaxError", geo |-> <<>>, table |-> EmptyTable, cube |-> NoCube]
GeoObj(fc) == [t |-> "object", geo |-> fc, table |-> EmptyTable, cube |-> NoCube]
TableObj(tb) == [t |-> "object", geo |-> <<>>, table |-> tb, cube |-> NoCube]
CubeObj(c) == [t |-> "object", geo |-> <<>>, table |-> EmptyTable, cube |-> c]

\* !!x
Truthy(x) == x.t = "object"

\* feature collections the geo endpoint serves / the cache may hold
FcA == <<[properties |-> TRUE, kunta |-> Code1, name |-> NameA]>>
FcB == <<[properties |-> TRUE, kunta |-> Code1, name |-> NameA],
         [properties |-> TRUE, kunta |-> Code2, name |-> NoName]>>
GeoBodies == {FcA, FcB}

\* cubes the two statistics endpoints serve
CubeA == [value |-> <<1, 0>>, index |-> (KU1 :> 0 @@ KU2 :> 1)]
CubeB == [value |-> <<0>>, index |-> (KU1 :> 0)]
CubeBodies == {CubeA, CubeB}

\* a table as a cached page may have left it
TbCached == (Code1 :> [immigration |-> Num(1), emigration |-> Num(1)])

\* JSON.stringify: a property whose value is undefined is left out
EncodeRow(row) ==
  [f \in {g \in DOMAIN row : row[g] # Undefined} |-> row[f]]

Encode(val) ==
  [val EXCEPT !.table = [c \in DOMAIN val.table |-> EncodeRow(val.table[c])]]

Absent == [kind |-> "absent", val |-> Null]
Corrupt == [kind |-> "corrupt", val |-> Null]
JSONStringify(val) == [kind |-> "json", val |-> Encode(val)]

\* JSON.parse(sessionStorage.getItem(key)): getItem gives null for an absent
\* key and JSON.parse(null) is null; text that is not JSON throws
JSONParse(text) ==
  CASE text.kind = "absent" -> Null
    [] text.kind = "corrupt" -> SyntaxError
    [] OTHER -> text.val

----------------------------------------------------------------------------
(* fetchJsonData (lines 23-40, 189-206, 293-309) *)

Urls == {"immigration", "emigration", "geoJson"}

NoContentType == [present |-> FALSE, text |-> <<>>]
ContentTypes ==
  {NoContentType,
   [present |-> TRUE, text |-> <<"text/html">>],
   [present |-> TRUE, text |-> <<"application/json">>],
   [present |-> TRUE, text |-> <<"application/json", "; charset=utf-8">>]}

Statuses == {200, 404}

NoResponse == [threw |-> FALSE, status |-> 0, contentType |-> NoContentType]
Responses ==
  {[threw |-> TRUE, status |-> 0, contentType |-> NoContentType]}
  \cup [threw : {FALSE}, status : Statuses, contentType : ContentTypes]

\* response.ok
Ok(resp) == resp.status >= 200 /\ resp.status <= 299

\* contentType.includes("application/json")
Includes(text, part) == \E i \in 1..Len(text) : text[i] = part

\* !contentType || !contentType.includes("application/json")
NotJson(ct) == ~ct.present \/ ct.text = <<>> \/ ~Includes(ct.text, "application/json")

BodiesFor(u) ==
  IF u = "geoJson" THEN {GeoObj(fc) : fc \in GeoBodies}
  ELSE {CubeObj(c) : c \in CubeBodies}

\* what the catch block returns: null (line 38, 204), nothing in variant 3
CatchValue(v) == IF v = 3 THEN UndefinedVal ELSE Null

\* `${err.name}: ${err.message}`; status is the number inside the message
Message(name, message, status) ==
  [name |-> name, message |-> message, status |-> status]

Idle == [status |-> "idle", response |-> NoResponse, ret |-> Null]
InFlight == [status |-> "inflight", response |-> NoResponse, ret |-> Null]

\* the function up to `return await response.json()`, given the outcome of
\* `await fetch(url)`: where it goes next, what it logs, what it returns
AfterFetch(v, resp) ==
  IF resp.threw
  THEN [status |-> "settled", log |-> <<Message("TypeError", "fetch failed", 0)>>,
        ret |-> CatchValue(v)]
  ELSE IF ~Ok(resp)
  THEN [status |-> "settled", log |-> <<Message("Error", "HTTP error", resp.status)>>,
        ret |-> CatchValue(v)]
  ELSE IF NotJson(resp.contentType)
  THEN [status |-> "settled", log |-> <<Message("TypeError", "Fetched dataset isn't JSON!", 0)>>,
        ret |-> CatchValue(v)]
  ELSE [status |-> "parsing", log |-> <<>>, ret |-> Null]

----------------------------------------------------------------------------
(* getData (lines 46-75, 207-225) and window.onload (13-16, 185-188, 290) *)

\* the argument Promise.all receives at lines 55-59 and 211-215: the call
\* passes three arguments, so the iterable parameter is the first one, the
\* promise of fetchJsonData(URLs.immigration), which is not iterable
JoinArgument == [iterable |-> FALSE, members |-> {"immigration"}]

\* Promise.all(arg): rejected with a TypeError when arg is not iterable,
\* otherwise fulfilled once every member has settled (fetchJsonData never
\* rejects)
PromiseAll(arg, fs) ==
  IF ~arg.iterable THEN "rejected"
  ELSE IF \A u \in arg.members : fs[u].status = "settled" THEN "fulfilled"
  ELSE "pending"

JoinState == PromiseAll(JoinArgument, fetches)

\* a continuation of getData or of the handler is queued as a microtask;
\* network events are delivered only when no microtask is pending
MicrotaskPending ==
  \/ pc = "awaitJoin" /\ JoinState # "pending"
  \/ pc = "returned"

NoEffects == [fetched |-> [u \in Urls |-> 0], decoded |-> 0, written |-> 0]
NoResult == [outcome |-> "none", error |-> "", geoJsonData |-> Null, migrationData |-> Null]
Returned(g, m) == [outcome |-> "returned", error |-> "", geoJsonData |-> g, migrationData |-> m]
Rejected(e) == [outcome |-> "rejected", error |-> e, geoJsonData |-> Null, migrationData |-> Null]
NotDrawn == [called |-> FALSE, geoJsonData |-> Null, migrationData |-> Null]

NotRead == [done |-> FALSE, geoJsonData |-> Null, migrationData |-> Null]
Read(g, m) == [done |-> TRUE, geoJsonData |-> g, migrationData |-> m]

\* the cache test: line 50 (variant 1), line 210 negated (variant 2)
CacheHitEither(v, g, m) ==
  IF v = 1 THEN Truthy(g) \/ Truthy(m) ELSE ~(g = Null /\ m = Null)

CacheHitNegated(v, g, m) ==
  IF v = 1 THEN ~(Truthy(g) /\ Truthy(m)) ELSE (g = Null \/ m = Null)

CacheHit(v, g, m) ==
  IF v = 1 THEN Truthy(g) /\ Truthy(m) ELSE ~(g = Null \/ m = Null)

\* the fetchJsonData calls of lines 56-58 (212-214): one per URL
LaunchesRepeated == [u \in Urls |-> IF u = "immigration" THEN 2
                                    ELSE IF u = "emigration" THEN 0 ELSE 1]

Launches == [u \in Urls |-> 1]

\* the session at its first page load
EmptyStore == [geoJsonData |-> Absent, migrationData |-> Absent]
FirstLoad ==
  [loads |-> 1, writers |-> 0, decoded |-> 0, served |-> FALSE,
   emptyStart |-> sessionStorage = EmptyStore]

\* window.onload up to the first suspension of getData
OnLoad ==
  /\ pc = "start"
  /\ LET g == JSONParse(sessionStorage["geoJsonData"])
         m == JSONParse(sessionStorage["migrationData"])
     IN IF variant = 3
        THEN /\ pc' = "done"
             /\ UNCHANGED <<geoJsonData, migrationData, cacheRead, fetches,
                            result, effects>>
        ELSE IF g = SyntaxError \/ m = SyntaxError
        THEN /\ pc' = "rejected"
             /\ result' = Rejected("SyntaxError")
             /\ UNCHANGED <<geoJsonData, migrationData, cacheRead, fetches, effects>>
        ELSE IF CacheHit(variant, g, m)
        THEN /\ pc' = "returned"
             /\ result' = Returned(g, m)
             /\ geoJsonData' = g
             /\ migrationData' = m
             /\ cacheRead' = Read(g, m)
             /\ UNCHANGED <<fetches, effects>>
        ELSE /\ pc' = "awaitJoin"
             /\ geoJsonData' = g
             /\ migrationData' = m
             /\ cacheRead' = Read(g, m)
             /\ fetches' = [u \in Urls |-> IF Launches[u] > 0 THEN InFlight ELSE Idle]
             /\ effects' = [effects EXCEPT
                              !.fetched = [u \in Urls |-> @[u] + Launches[u]]]
             /\ UNCHANGED result
  /\ UNCHANGED <<variant, sessionStorage, console, drawn, session>>
  /\ UNCHANGED <<decodeVars, styleVars, hueVars>>

\* the network answers the request of fetchJsonData(u): lines 25-32
FetchResponse(u) ==
  /\ fetches[u].status = "inflight"
  /\ ~MicrotaskPending
  /\ \E resp \in Responses :
       LET a == AfterFetch(variant, resp)
       IN /\ fetches' = [fetches EXCEPT ![u] =
                           [status |-> a.status, response |-> resp, ret |-> a.ret]]
          /\ console' = console \o a.log
  /\ UNCHANGED <<variant, sessionStorage, pc, geoJsonData, migrationData,
                 cacheRead, result, effects, drawn, session>>
  /\ UNCHANGED <<decodeVars, styleVars, hueVars>>

\* response.json() settles: line 33, and the catch block when it rejects
FetchBody(u) ==
  /\ fetches[u].status = "parsing"
  /\ ~MicrotaskPending
  /\ \/ \E body \in BodiesFor(u) :
          /\ fetches' = [fetches EXCEPT ![u].status = "settled", ![u].ret = body]
          /\ UNCHANGED console
     \/ /\ fetches' = [fetches EXCEPT ![u].status = "settled",
                                      ![u].ret = CatchValue(variant)]
        /\ console' = Append(console, Message("SyntaxError", "bad JSON", 0))
  /\ UNCHANGED <<variant, sessionStorage, pc, geoJsonData, migrationData,
                 cacheRead, result, effects, drawn, session>>
  /\ UNCHANGED <<decodeVars, styleVars, hueVars>>

\* getData after `await Promise.all(...)`: lines 55-74 and 211-224
GetDataResume ==
  /\ pc = "awaitJoin"
  /\ JoinState # "pending"
  /\ IF JoinState = "rejected"
     THEN /\ pc' = "rejected"
          /\ result' = Rejected("TypeError")
          /\ UNCHANGED <<sessionStorage, geoJsonData, migrationData, effects>>
     ELSE LET immData == fetches["immigration"].ret
              emgData == fetches["emigration"].ret
              geoJson == fetches["geoJson"].ret
              \* line 62 tests the outer geoJsonData, line 217 the fetched one
              tested == IF variant = 1 THEN geoJsonData ELSE geoJson
          IN IF ~Truthy(immData) \/ ~Truthy(emgData) \/ ~Truthy(tested)
             THEN /\ pc' = "returned"
                  /\ result' = Returned(Null, Null)
                  /\ UNCHANGED <<sessionStorage, geoJsonData, migrationData, effects>>
             ELSE LET table == TableObj(formatMigrationData(immData.cube, emgData.cube))
                  IN /\ pc' = "returned"
                     /\ sessionStorage' =
                          [sessionStorage EXCEPT
                             !["geoJsonData"] = JSONStringify(geoJson),
                             !["migrationData"] = JSONStringify(table)]
                     /\ effects' = [effects EXCEPT !.decoded = @ + 1, !.written = @ + 2]
                     \* line 74 returns the fetched geoJson; line 224 returns
                     \* the outer geoJsonData, which line 211 shadows
                     /\ result' = Returned(IF variant = 1 THEN geoJson ELSE geoJsonData,
                                           table)
                     /\ migrationData' = IF variant = 1 THEN migrationData ELSE table
                     /\ UNCHANGED geoJsonData
  /\ UNCHANGED <<variant, cacheRead, fetches, console, drawn, session>>
  /\ UNCHANGED <<decodeVars, styleVars, hueVars>>

\* the handler after `await getData()`: line 15
DrawMapAnyway ==
  /\ pc \in {"returned", "rejected"}
  /\ ~drawn.called
  /\ pc' = "done"
  /\ drawn' = [called |-> TRUE, geoJsonData |-> result.geoJsonData,
               migrationData |-> result.migrationData]
  /\ UNCHANGED <<variant, sessionStorage, geoJsonData, migrationData, cacheRead,
                 fetches, console, result, effects, session>>
  /\ UNCHANGED <<decodeVars, styleVars, hueVars>>

DrawMap ==
  /\ pc = "returned"
  /\ pc' = "done"
  /\ drawn' = [called |-> TRUE, geoJsonData |-> result.geoJsonData,
               migrationData |-> result.migrationData]
  /\ UNCHANGED <<variant, sessionStorage, geoJsonData, migrationData, cacheRead,
                 fetches, console, result, effects, session>>
  /\ UNCHANGED <<decodeVars, styleVars, hueVars>>

\* the user reloads the page in the same tab: the document and its pending
\* requests go away, the session store stays, window.onload will run again
Reload ==
  /\ pc # "start"
  /\ ~MicrotaskPending
  /\ session.loads < MaxLoads
  /\ session' =
       [session EXCEPT
        !.loads = session.loads + 1,
        !.writers = session.writers + (IF effects.written > 0 THEN 1 ELSE 0),
        !.decoded = session.decoded + effects.decoded,
        !.served = session.served
                     \/ \A u \in Urls : /\ fetches[u].status = "settled"
                                        /\ Truthy(fetches[u].ret)]
  /\ pc' = "start"
  /\ geoJsonData' = Null
  /\ migrationData' = Null
  /\ cacheRead' = NotRead
  /\ fetches' = [u \in Urls |-> Idle]
  /\ console' = <<>>
  /\ result' = NoResult
  /\ effects' = NoEffects
  /\ drawn' = NotDrawn
  /\ UNCHANGED <<variant, sessionStorage>>
  /\ UNCHANGED <<decodeVars, styleVars, hueVars>>

StoreInit ==
  sessionStorage \in
    [geoJsonData : {Absent, Corrupt, JSONStringify(GeoObj(FcA))},
     migrationData : {Absent, Corrupt, JSONStringify(TableObj(TbCached))}]

PipelineInit ==
  /\ variant \in 1..3
  /\ StoreInit
  /\ pc = "start"
  /\ geoJsonData = Null
  /\ migrationData = Null
  /\ cacheRead = NotRead
  /\ fetches = [u \in Urls |-> Idle]
  /\ console = <<>>
  /\ result = NoResult
  /\ effects = NoEffects
  /\ drawn = NotDrawn
  /\ session = FirstLoad

PipelineIdle ==
  /\ variant = 1
  /\ sessionStorage = [geoJsonData |-> Absent, migrationData |-> Absent]
  /\ pc = "off"
  /\ geoJsonData = Null
  /\ migrationData = Null
  /\ cacheRead = NotRead
  /\ fetches = [u \in Urls |-> Idle]
  /\ console = <<>>
  /\ result = NoResult
  /\ effects = NoEffects
  /\ drawn = NotDrawn
  /\ session = FirstLoad

\* a direct call fetchJsonData(u) in any of the three variants
FetchInit ==
  /\ variant \in 1..3
  /\ sessionStorage = [geoJsonData |-> Absent, migrationData |-> Absent]
  /\ pc = "direct"
  /\ geoJsonData = Null
  /\ migrationData = Null
  /\ cacheRead = NotRead
  /\ \E u \in Urls : fetches = [w \in Urls |-> IF w = u THEN InFlight ELSE Idle]
  /\ console = <<>>
  /\ result = NoResult
  /\ effects = NoEffects
  /\ drawn = NotDrawn
  /\ session = FirstLoad

----------------------------------------------------------------------------
(* Specifications *)

Init == PipelineInit /\ DecodeIdle /\ StyleIdle /\ HueIdle
Next ==
  \/ OnLoad
  \/ \E u \in Urls : FetchResponse(u)
  \/ \E u \in Urls : FetchBody(u)
  \/ GetDataResume
  \/ DrawMap
  \/ Reload
Spec == Init /\ [][Next]_vars

FetchSpecInit == FetchInit /\ DecodeIdle /\ StyleIdle /\ HueIdle
FetchNext ==
  \/ \E u \in Urls : FetchResponse(u)
  \/ \E u \in Urls : FetchBody(u)
SpecFetch == FetchSpecInit /\ [][FetchNext]_vars

DecodeSpecInit == PipelineIdle /\ DecodeInit /\ StyleIdle /\ HueIdle
SpecDecode == DecodeSpecInit /\ [][Decode]_vars

StyleSpecInit == PipelineIdle /\ DecodeIdle /\ StyleInit /\ HueIdle
StyleNext == Style \/ OnEach
SpecStyle == StyleSpecInit /\ [][StyleNext]_vars

HueSpecInit == PipelineIdle /\ DecodeIdle /\ StyleIdle /\ HueInit
SpecHue == HueSpecInit /\ [][CalcHue]_vars

----------------------------------------------------------------------------
(* Properties *)

GetDataVariant == variant \in {1, 2}
StoredGeo == JSONParse(sessionStorage["geoJsonData"])
StoredTable == JSONParse(sessionStorage["migrationData"])
AllSettled == \A u \in Urls : fetches[u].status = "settled"
AllFetched == \A u \in Urls : fetches[u].ret.t = "object"
Launched == \E u \in Urls : effects.fetched[u] > 0
\* getData has run past its join (or ended before it)
PastJoin == cacheRead.done /\ pc \notin {"start", "awaitJoin"}
FreshTable ==
  TableObj(formatMigrationData(fetches["immigration"].ret.cube,
                               fetches["emigration"].ret.cube))

\* C1: a call of getData that finds both entries in the session store
\* (each parsing to a non-null value) returns exactly the two stored values
\* in the same step, and that step launches no fetch, decodes nothing,
\* logs nothing and leaves the session store as it was.
C1_CacheHit ==
  [][(pc = "start" /\ GetDataVariant
        /\ StoredGeo.t = "object" /\ StoredTable.t = "object")
      => /\ pc' = "returned"
         /\ result' = Returned(StoredGeo, StoredTable)
         /\ fetches' = fetches
         /\ effects' = effects
         /\ sessionStorage' = sessionStorage
         /\ console' = console]_vars

C1_Witness ==
  /\ pc = "done"
  /\ drawn.called
  /\ cacheRead = Read(GeoObj(FcA), TableObj(TbCached))
  /\ result = Returned(GeoObj(FcA), TableObj(TbCached))
  /\ effects = NoEffects

\* C2: once getData has started from an empty session store and all three
\* fetches have produced data, getData has decoded once, has stored the
\* fetched features and the decoded table, and has returned that pair.
C2_SuccessfulAcquisition ==
  (GetDataVariant /\ PastJoin /\ cacheRead = Read(Null, Null)
     /\ AllSettled /\ AllFetched)
  => /\ result = Returned(fetches["geoJson"].ret, FreshTable)
     /\ effects.decoded = 1
     /\ sessionStorage = [geoJsonData |-> JSONStringify(fetches["geoJson"].ret),
                          migrationData |-> JSONStringify(FreshTable)]

\* C3: on a cache miss, once the three fetches have settled and at least one
\* of them gave no data, getData has returned {null, null}, has not decoded
\* and has not written the session store.
C3_FailedAcquisition ==
  (GetDataVariant /\ PastJoin /\ Launched /\ AllSettled /\ ~AllFetched)
  => /\ result = Returned(Null, Null)
     /\ effects.decoded = 0
     /\ effects.written = 0

\* C4: on a cache miss all three fetches are launched before getData waits,
\* and getData does not leave its join (to check, decode, write, return or
\* fail) while any of the three fetches is unsettled.
C4_JoinBarrier ==
  /\ (pc = "awaitJoin" => \A u \in Urls : fetches[u].status # "idle")
  /\ (GetDataVariant /\ PastJoin /\ Launched => AllSettled)

\* C5: a settled fetchJsonData call returned the parsed body exactly when
\* the response was successful, declared application/json and parsed;
\* otherwise it logged one error and returned null.  The body is parsed only
\* after both checks passed.
C5_FetchNeverThrows ==
  \A u \in Urls :
    LET f == fetches[u]
        passed == ~f.response.threw /\ Ok(f.response)
                    /\ f.response.contentType.present
                    /\ Includes(f.response.contentType.text, "application/json")
    IN /\ (f.status = "parsing" => passed)
       /\ (f.status = "settled" =>
             \/ passed /\ f.ret \in BodiesFor(u) /\ console = <<>>
             \/ f.ret = Null /\ Len(console) = 1)

\* C6: for a well-formed cube pair (no two immigration keys name the same
\* region, every immigration key is in the emigration index, every position
\* lies inside its value sequence) the table has one row per immigration
\* key, keyed by the key without its leading "KU", holding the immigration
\* value at the key's position and the emigration value at the position the
\* emigration index gives for the same key.
Prefix == <<"K", "U">>
HasPrefix(k) == Len(k) >= 2 /\ SubSeq(k, 1, 2) = Prefix
RegionCode(k) == IF HasPrefix(k) THEN SubSeq(k, 3, Len(k)) ELSE k
WellFormedPair(imm, emg) ==
  /\ \A k1, k2 \in DOMAIN imm.index : k1 # Prefix \o k2
  /\ \A k \in DOMAIN imm.index :
       /\ imm.index[k] < Len(imm.value)
       /\ k \in DOMAIN emg.index
       /\ emg.index[k] < Len(emg.value)

C6_OneRowPerKey ==
  (formatted.done /\ WellFormedPair(immigrationData, emigrationData))
  => /\ Cardinality(DOMAIN formatted.table)
          = Cardinality(DOMAIN immigrationData.index)
     /\ \A k \in DOMAIN immigrationData.index :
          /\ RegionCode(k) \in DOMAIN formatted.table
          /\ formatted.table[RegionCode(k)] =
               [immigration |->
                  Num(immigrationData.value[immigrationData.index[k] + 1]),
                emigration |->
                  Num(emigrationData.value[emigrationData.index[k] + 1])]
     /\ StripKU(<<"K", "U", "1", "0", "9">>) = <<"1", "0", "9">>

C6_Witness ==
  /\ formatted.done
  /\ WellFormedPair(immigrationData, emigrationData)
  /\ DOMAIN immigrationData.index = {KU1, KU2}
  /\ immigrationData.index[KU1] # emigrationData.index[KU1]
  /\ immigrationData.value # emigrationData.value
  /\ DOMAIN formatted.table = {Code1, Code2}

\* C7: a key of the immigration index that the emigration index lacks still
\* gets a row, and that row's emigration is the number 0.
C7_MissingCounterpartZero ==
  formatted.done =>
    \A k \in (DOMAIN immigrationData.index) \ (DOMAIN emigrationData.index) :
      /\ RegionCode(k) \in DOMAIN formatted.table
      /\ (Prefix \o k \notin DOMAIN immigrationData.index
            => Get(formatted.table[RegionCode(k)], "emigration") = Num(0))

\* C8: styleFunction gives the fallback style {"#ccc", 1} to a feature
\* without a region code and to a feature whose code is not in the table,
\* and a hue-derived colour only to a feature whose code is in the table.
C8_FallbackStyle ==
  style # NoStyle =>
    IF HasKunta(feature) /\ feature.kunta \in DOMAIN styleTable
    THEN style.color = "hsl"
    ELSE style = FallbackStyle

\* C9: for counts 0..MaxMigration, calcHue(i, e) is min(120, 60 * (i/d)^3)
\* with d = e when e # 0 and d = 1 otherwise; it lies in [0, 120]; it is 120
\* exactly when i^3 >= 2 * d^3; calcHue(0,0) = 0, calcHue(1,1) = 60,
\* calcHue(10,5) = 120, calcHue(5,0) = 120.
Cube3(x) == x * x * x
HueIs(h, n) == h.t = "number" /\ h.den > 0 /\ h.num = n * h.den
C9_HueFormula ==
  hue # NoHue =>
    LET i == positiveMigration.n
        e == negativeMigration.n
        d == IF e # 0 THEN e ELSE 1
    IN /\ hue.t = "number"
       /\ hue.den > 0
       /\ 0 <= hue.num /\ hue.num <= 120 * hue.den
       /\ IF 60 * Cube3(i) >= 120 * Cube3(d)
          THEN hue.num = 120 * hue.den
          ELSE hue.num * Cube3(d) = 60 * Cube3(i) * hue.den
       /\ (HueIs(hue, 120) <=> Cube3(i) >= 2 * Cube3(d))
       /\ (i = 0 /\ e = 0 => HueIs(hue, 0))
       /\ (i = 1 /\ e = 1 => HueIs(hue, 60))
       /\ (i = 10 /\ e = 5 => HueIs(hue, 120))
       /\ (i = 5 /\ e = 0 => HueIs(hue, 120))

C9_Witness ==
  /\ positiveMigration = Num(4)
  /\ negativeMigration = Num(3)
  /\ HueIs(hue, 120)

\* C10: when getData started with exactly one of the two entries present and
\* all three fetches have produced data, the outcome is that of an empty
\* store: the fetched features and the freshly decoded table are returned
\* and stored, and no part of the result is the entry that was cached.
C10_BothOrNeither ==
  (GetDataVariant /\ PastJoin /\ AllSettled /\ AllFetched
     /\ (cacheRead.geoJsonData = Null) # (cacheRead.migrationData = Null))
  => /\ Launched
     /\ result = Returned(fetches["geoJson"].ret, FreshTable)
     /\ sessionStorage = [geoJsonData |-> JSONStringify(fetches["geoJson"].ret),
                          migrationData |-> JSONStringify(FreshTable)]

C13_UnparsableIsMiss ==
  (GetDataVariant /\ pc # "start"
     /\ Corrupt \in {sessionStorage["geoJsonData"], sessionStorage["migrationData"]})
  => /\ Launched
     /\ result.error # "SyntaxError"

\* C16: on a cache miss, while one of the three fetches has not settled
\* getData has returned nothing, written nothing and drawMap has not been
\* called; once all three have settled and getData has run again, it has
\* returned the success pair or the failure outcome.
C16_NoTimeout ==
  GetDataVariant /\ Launched =>
    /\ (~AllSettled => /\ result.outcome # "returned"
                       /\ effects.written = 0
                       /\ ~drawn.called)
    /\ (AllSettled /\ pc # "awaitJoin" => result.outcome = "returned")

\* C17: one getData invocation calls fetchJsonData either for no URL (cache
\* hit) or exactly once for each of the three URLs, and the count does not
\* grow when fetches fail.
C17_NoRetries ==
  /\ \/ \A u \in Urls : effects.fetched[u] = 0
     \/ \A u \in Urls : effects.fetched[u] = 1
  /\ \A u \in Urls : (fetches[u].status # "idle") = (effects.fetched[u] = 1)
  /\ (cacheRead.done /\ CacheHit(variant, cacheRead.geoJsonData, cacheRead.migrationData)
        => ~Launched)
  /\ (pc = "awaitJoin" => Launched)

C17_Witness ==
  /\ \A u \in Urls : effects.fetched[u] = 1
  /\ AllSettled
  /\ \A u \in Urls : fetches[u].ret = Null
  /\ Len(console) = 3

\* C18: every pair getData returns has both members non-null or both null.
C18_AllOrNothing ==
  result.outcome = "returned" =>
    \/ Truthy(result.geoJsonData) /\ Truthy(result.migrationData)
    \/ result.geoJsonData = Null /\ result.migrationData = Null

C18_Witness ==
  /\ session.loads = 2
  /\ variant = 2
  /\ result.outcome = "returned"
  /\ Truthy(result.geoJsonData)
  /\ Truthy(result.migrationData)

\* C14: the table decoded from a cube pair whose positions lie inside the
\* value sequences (an immigration key may lack an emigration counterpart)
\* survives JSON.stringify followed by JSON.parse: the same region codes,
\* and for each code a row with both fields holding the same counts.
PositionsInside(imm, emg) ==
  \A k \in DOMAIN imm.index :
    /\ imm.index[k] < Len(imm.value)
    /\ (k \in DOMAIN emg.index => emg.index[k] < Len(emg.value))

C14_CacheRoundTrip ==
  (formatted.done /\ PositionsInside(immigrationData, emigrationData))
  => LET back == JSONParse(JSONStringify(TableObj(formatted.table))).table
     IN /\ DOMAIN back = DOMAIN formatted.table
        /\ \A c \in DOMAIN back :
             /\ DOMAIN back[c] = {"immigration", "emigration"}
             /\ back[c]["immigration"] = formatted.table[c]["immigration"]
             /\ back[c]["emigration"] = formatted.table[c]["emigration"]

\* C15: for a feature whose region code is not in the table onEachFunction
\* binds a popup showing 0 and 0; for a feature whose code is in the table
\* the popup shows that row's immigration and emigration as they are.
C15_PopupDefaults ==
  (layer.done /\ HasKunta(feature)) =>
    /\ layer.popup.bound
    /\ IF feature.kunta \in DOMAIN styleTable
       THEN /\ layer.popup.positive =
                 Interpolate(Get(styleTable[feature.kunta], "immigration"))
            /\ layer.popup.negative =
                 Interpolate(Get(styleTable[feature.kunta], "emigration"))
       ELSE /\ layer.popup.positive = <<"0">>
            /\ layer.popup.negative = <<"0">>

C15_Witness ==
  /\ layer.done
  /\ feature.kunta = Code2
  /\ DOMAIN styleTable = {Code1}
  /\ layer.popup = [bound |-> TRUE, positive |-> <<"0">>, negative |-> <<"0">>]

====
